---- MODULE Spec2Model ----
(***************************************************************************)
(* DOE-PE: the gazette monitor of src/bot.py (run_pipeline, one document)  *)
(* and src/bot1.py (process_dates, one document per target date).          *)
(*                                                                         *)
(* A Python str is a sequence of one-character strings, so that slicing,   *)
(* find(), split(), lower() and strip() are computed on characters.  None  *)
(* is the one-element sequence None, which no str equals (its element is   *)
(* not a character).  U+0130 and U+0307 stand for the code points of these *)
(* numbers: str.lower() maps U+0130 to the two code points i, U+0307.      *)
(***************************************************************************)
EXTENDS Integers, Sequences, FiniteSets, TLC

None == <<"<None>">>

\* ---------------------------------------------------------------- str

UpperAlpha ==
  <<"A","B","C","D","E","F","G","H","I","J","K","L","M","N","O","P","Q","R",
    "S","T","U","V","W","X","Y","Z","Á","Ã","Ç","É","Í","Ó","Ú">>

LowerAlpha ==
  <<"a","b","c","d","e","f","g","h","i","j","k","l","m","n","o","p","q","r",
    "s","t","u","v","w","x","y","z","á","ã","ç","é","í","ó","ú">>

\* Code points with the Lowercase property that have no upper-case partner
\* in the texts of the model (the ordinal indicator of "decreto nº").
OtherLower == {"º", "U+0307"}

Whitespace == {" ", "\n", "\t"}

UpperSet == {UpperAlpha[k] : k \in 1..Len(UpperAlpha)} \cup {"U+0130"}

LowerSet == {LowerAlpha[k] : k \in 1..Len(LowerAlpha)} \cup OtherLower

LowerMap ==
  [c \in UpperSet |->
     IF c = "U+0130" THEN <<"i", "U+0307">>
     ELSE <<LowerAlpha[CHOOSE k \in 1..Len(UpperAlpha) : UpperAlpha[k] = c]>>]

\* str.lower() of one character: one or two characters.
lower_char(c) == IF c \in UpperSet THEN LowerMap[c] ELSE <<c>>

RECURSIVE lower(_)
\* str.lower(): character by character.  A text without U+0130 keeps its
\* length; one with U+0130 is lowered half by half, each U+0130 becoming two
\* characters.
lower(s) ==
  IF \A k \in 1..Len(s) : s[k] # "U+0130"
  THEN [k \in 1..Len(s) |-> lower_char(s[k])[1]]
  ELSE IF Len(s) = 1 THEN lower_char(s[1])
  ELSE LET m == Len(s) \div 2
       IN  lower(SubSeq(s, 1, m)) \o lower(SubSeq(s, m + 1, Len(s)))

\* str.isupper(): no lower-case character and at least one upper-case one.
isupper(s) ==
  /\ \A k \in 1..Len(s) : s[k] \notin LowerSet
  /\ \E k \in 1..Len(s) : s[k] \in UpperSet

\* s[a:b] for 0 <= a and 0 <= b (0-based, end exclusive, clamped to len(s)).
Slice(s, a, b) ==
  LET e == IF b > Len(s) THEN Len(s) ELSE b
  IN  IF a >= e THEN <<>> ELSE SubSeq(s, a + 1, e)

Max(a, b) == IF a >= b THEN a ELSE b

Min(a, b) == IF a <= b THEN a ELSE b

\* `sub in s`
Contains(s, sub) ==
  \E k \in 0..(Len(s) - Len(sub)) :
     \A j \in 1..Len(sub) : s[k + j] = sub[j]

\* s.find(sub): the lowest 0-based index where sub occurs in s, or -1.
find(s, sub) ==
  IF Contains(s, sub)
  THEN CHOOSE k \in 0..(Len(s) - Len(sub)) :
         /\ \A j \in 1..Len(sub) : s[k + j] = sub[j]
         /\ \A h \in 0..(k - 1) : \E j \in 1..Len(sub) : s[h + j] # sub[j]
  ELSE -1

RECURSIVE SortedSeq(_)
\* The numbers of a finite set, in increasing order.
SortedSeq(S) ==
  IF S = {} THEN <<>>
  ELSE LET m == CHOOSE x \in S : \A y \in S : x <= y
       IN  <<m>> \o SortedSeq(S \ {m})

\* s.split(sep) for a one-character sep: the pieces between the separators,
\* empty ones kept.
split_sep(s, sep) ==
  LET cuts == SortedSeq({0, Len(s) + 1} \cup {k \in 1..Len(s) : s[k] = sep})
  IN  [j \in 1..(Len(cuts) - 1) |-> SubSeq(s, cuts[j] + 1, cuts[j + 1] - 1)]

\* s.split(): the maximal runs of non-whitespace characters, in order.
split_ws(s) ==
  LET starts == SortedSeq({k \in 1..Len(s) :
                   s[k] \notin Whitespace /\ (k = 1 \/ s[k - 1] \in Whitespace)})
      ends   == SortedSeq({k \in 1..Len(s) :
                   s[k] \notin Whitespace /\ (k = Len(s) \/ s[k + 1] \in Whitespace)})
  IN  [j \in 1..Len(starts) |-> SubSeq(s, starts[j], ends[j])]

RECURSIVE join(_, _)
\* sep.join(parts)
join(sep, parts) ==
  IF parts = <<>> THEN <<>>
  ELSE IF Len(parts) = 1 THEN parts[1]
  ELSE parts[1] \o sep \o join(sep, Tail(parts))

\* str.strip()
strip(s) ==
  IF \A k \in 1..Len(s) : s[k] \in Whitespace THEN <<>>
  ELSE LET a == CHOOSE k \in 1..Len(s) :
                  s[k] \notin Whitespace /\ \A h \in 1..(k - 1) : s[h] \in Whitespace
           b == CHOOSE k \in 1..Len(s) :
                  s[k] \notin Whitespace /\ \A h \in (k + 1)..Len(s) : s[h] \in Whitespace
       IN  SubSeq(s, a, b)

\* `if text == "": continue`: None is let through.
Falsy_mut(text) == text = <<>>

\* `not text` for text a str or None
Falsy(text) == text = None \/ text = <<>>

\* `" ".join(text.split(' '))`: only the single space separates words.
clean_text_mut(text) ==
  IF Falsy(text) THEN <<>> ELSE join(<<" ">>, split_sep(text, " "))

\* if not text: return ""; return " ".join(text.split())
clean_text(text) ==
  IF Falsy(text) THEN <<>> ELSE join(<<" ">>, split_ws(text))

\* ---------------------------------------------------------------- catalog

\* "concurso público", "processo seletivo", "nomeação", ...
termos_CONCURSOS_SELECOES ==
  <<
    <<"c","o","n","c","u","r","s","o"," ","p","ú","b","l","i","c","o">>,
    <<"p","r","o","c","e","s","s","o"," ","s","e","l","e","t","i","v","o">>,
    <<"n","o","m","e","a","ç","ã","o">>,
    <<"h","o","m","o","l","o","g","a","ç","ã","o">>,
    <<"e","d","i","t","a","l"," ","d","e"," ","a","b","e","r","t","u","r",
      "a">>,
    <<"c","o","n","v","o","c","a","ç","ã","o">>
  >>

\* "secretaria de saúde", "biotecnologia", "medicamentos", ...
termos_SAUDE_BIOTEC ==
  <<
    <<"s","e","c","r","e","t","a","r","i","a"," ","d","e"," ","s","a","ú",
      "d","e">>,
    <<"b","i","o","t","e","c","n","o","l","o","g","i","a">>,
    <<"m","e","d","i","c","a","m","e","n","t","o","s">>,
    <<"i","n","s","u","m","o","s">>,
    <<"l","a","b","o","r","a","t","ó","r","i","o">>,
    <<"v","a","c","i","n","a","ç","ã","o">>,
    <<"e","p","i","d","e","m","i","o","l","ó","g","i","c","a">>
  >>

\* "fapesq", "bolsa de pesquisa", "mestrado", ...
termos_EDUCACAO_PESQUISA ==
  <<
    <<"f","a","p","e","s","q">>,
    <<"b","o","l","s","a"," ","d","e"," ","p","e","s","q","u","i","s","a">>,
    <<"m","e","s","t","r","a","d","o">>,
    <<"d","o","u","t","o","r","a","d","o">>,
    <<"u","n","i","v","e","r","s","i","d","a","d","e"," ","d","e"," ","p",
      "e","r","n","a","m","b","u","c","o">>,
    <<"e","d","u","c","a","ç","ã","o"," ","b","á","s","i","c","a">>
  >>

\* "decreto nº", "lei nº", "portaria nº", ...
termos_REGULACAO_LEIS ==
  <<
    <<"d","e","c","r","e","t","o"," ","n","º">>,
    <<"l","e","i"," ","n","º">>,
    <<"p","o","r","t","a","r","i","a"," ","n","º">>,
    <<"r","e","s","o","l","u","ç","ã","o">>
  >>

\* "SEU NOME"
termos_MONITORAMENTO_PESSOAL ==
  << <<"S","E","U"," ","N","O","M","E">> >>

\* self.keywords of src/bot.py, in the insertion order a dict iterates in.
keywords_bot ==
  <<
    [categoria |-> "CONCURSOS_SELECOES", termos |-> termos_CONCURSOS_SELECOES, impacto |-> "ALTO"],
    [categoria |-> "SAUDE_BIOTEC", termos |-> termos_SAUDE_BIOTEC, impacto |-> "MEDIO"],
    [categoria |-> "EDUCACAO_PESQUISA", termos |-> termos_EDUCACAO_PESQUISA, impacto |-> "MEDIO"],
    [categoria |-> "REGULACAO_LEIS", termos |-> termos_REGULACAO_LEIS, impacto |-> "BAIXO"]
  >>

\* self.keywords of src/bot1.py.
keywords_bot1 ==
  <<
    [categoria |-> "MONITORAMENTO_PESSOAL", termos |-> termos_MONITORAMENTO_PESSOAL, impacto |-> "ALTO"],
    [categoria |-> "CONCURSOS_SELECOES", termos |-> termos_CONCURSOS_SELECOES, impacto |-> "ALTO"],
    [categoria |-> "SAUDE_BIOTEC", termos |-> termos_SAUDE_BIOTEC, impacto |-> "MEDIO"],
    [categoria |-> "EDUCACAO_PESQUISA", termos |-> termos_EDUCACAO_PESQUISA, impacto |-> "MEDIO"],
    [categoria |-> "REGULACAO_LEIS", termos |-> termos_REGULACAO_LEIS, impacto |-> "BAIXO"]
  >>

keywords(prog) == IF prog = "bot" THEN keywords_bot ELSE keywords_bot1

\* ---------------------------------------------------------------- clock

SecondsPerMinute == 60

SecondsPerDay == 86400

\* datetime.now().strftime("%Y%m%d_%H%M"): the clock reading cut to the minute.
timestamp_of(t) == t \div SecondsPerMinute

\* datetime.now().strftime("%Y-%m-%d"): the clock reading cut to the day.
date_of(t) == t \div SecondsPerDay

\* ---------------------------------------------------------------- analyze_pdf

CtxBefore == 100

CtxAfter == 200

TopLines == 5

MinTopicLen == 5

GERAL == <<"G","E","R","A","L">>

Ellipsis == <<".",".",".">>

\* os.path.basename(path): what follows the last "/".
basename(path) ==
  LET parts == split_sep(path, "/") IN parts[Len(parts)]

RECURSIVE topico_loop_mut(_, _)
\* `len(line) >= 5` for `len(line) > 5`
topico_loop_mut(lines, k) ==
  IF k > Min(TopLines, Len(lines)) THEN GERAL
  ELSE IF isupper(lines[k]) /\ Len(lines[k]) >= MinTopicLen THEN lines[k]
  ELSE topico_loop_mut(lines, k + 1)

RECURSIVE topico_loop(_, _)
\* for line in lines[:5]: if line.isupper() and len(line) > 5: ...; break
topico_loop(lines, k) ==
  IF k > Min(TopLines, Len(lines)) THEN GERAL
  ELSE IF isupper(lines[k]) /\ Len(lines[k]) > MinTopicLen THEN lines[k]
  ELSE topico_loop(lines, k + 1)

\* topico_estimado of a page with raw text `text`
topico_of(text) == topico_loop(split_sep(text, "\n"), 1)

\* The window taken symmetric: `start_idx - 200`.
snippet_of_mut(text_clean, text_lower, termo) ==
  LET start_idx == find(text_lower, termo)
      start_ctx == Max(0, start_idx - CtxAfter)
      end_ctx   == Min(Len(text_clean), start_idx + CtxAfter)
      snippet   == Slice(text_clean, start_ctx, end_ctx)
  IN  strip(snippet) \o Ellipsis

\* resumo_snippet of the entry for `termo`
snippet_of(text_clean, text_lower, termo) ==
  LET start_idx == find(text_lower, termo)
      start_ctx == Max(0, start_idx - CtxBefore)
      end_ctx   == Min(Len(text_clean), start_idx + CtxAfter)
      snippet   == Slice(text_clean, start_ctx, end_ctx)
  IN  strip(snippet) \o Ellipsis

\* The dict appended for one match; only src/bot1.py records "arquivo".
entry_of(prog, pdf_path, i, topico, info, termo, text_clean, text_lower, t) ==
  LET common ==
        [pagina             |-> i + 1,
         topico_detectado   |-> topico,
         categoria          |-> info.categoria,
         termo_encontrado   |-> termo,
         impacto            |-> info.impacto,
         resumo_snippet     |-> snippet_of(text_clean, text_lower, termo),
         data_processamento |-> date_of(t)]
  IN  IF prog = "bot" THEN common
      ELSE [arquivo |-> basename(pdf_path)] @@ common

RECURSIVE termos_loop_mut(_, _, _)
\* The loop without its `break`: every term found appends an entry.
termos_loop_mut(termos, text_lower, k) ==
  IF k > Len(termos) THEN <<>>
  ELSE (IF Contains(text_lower, termos[k]) THEN <<k>> ELSE <<>>)
       \o termos_loop_mut(termos, text_lower, k + 1)

\* `for termo in reversed(info['termos'])`: the last term of the list that
\* is found gets the entry.
termos_loop_last_mut(termos, text_lower, k) ==
  LET found == {j \in k..Len(termos) : Contains(text_lower, termos[j])}
  IN  IF found = {} THEN <<>>
      ELSE <<CHOOSE j \in found : \A h \in found : h <= j>>

RECURSIVE termos_loop(_, _, _)
\* for termo in info['termos']: if termo in text_lower: ...; break
\* The indices of the terms an entry is appended for.
termos_loop(termos, text_lower, k) ==
  IF k > Len(termos) THEN <<>>
  ELSE IF Contains(text_lower, termos[k]) THEN <<k>>
  ELSE termos_loop(termos, text_lower, k + 1)

RECURSIVE keywords_loop_mut(_, _, _, _, _, _, _, _)
\* The `break` leaving both loops: the first category that matches is the
\* only one with an entry for the page.
keywords_loop_mut(prog, pdf_path, i, topico, text_clean, text_lower, t, c) ==
  IF c > Len(keywords(prog)) THEN <<>>
  ELSE LET info == keywords(prog)[c]
           hits == termos_loop(info.termos, text_lower, 1)
       IN  IF hits # <<>>
           THEN <<entry_of(prog, pdf_path, i, topico, info,
                           info.termos[hits[1]], text_clean, text_lower, t)>>
           ELSE keywords_loop_mut(prog, pdf_path, i, topico, text_clean,
                                  text_lower, t, c + 1)

RECURSIVE keywords_loop(_, _, _, _, _, _, _, _)
\* for categoria, info in self.keywords.items(): the entries appended to
\* extracted_data for one page, in the order they are appended.
keywords_loop(prog, pdf_path, i, topico, text_clean, text_lower, t, c) ==
  IF c > Len(keywords(prog)) THEN <<>>
  ELSE LET info == keywords(prog)[c]
           hits == termos_loop(info.termos, text_lower, 1)
       IN  [h \in 1..Len(hits) |->
              entry_of(prog, pdf_path, i, topico, info, info.termos[hits[h]],
                       text_clean, text_lower, t)]
           \o keywords_loop(prog, pdf_path, i, topico, text_clean, text_lower,
                            t, c + 1)

\* The entries one page with truthy text appends to extracted_data.
page_entries(prog, pdf_path, i, text, t) ==
  LET text_clean == clean_text(text)
      text_lower == lower(text_clean)
  IN  keywords_loop(prog, pdf_path, i, topico_of(text), text_clean,
                    text_lower, t, 1)

\* `if info['impacto'] != "BAIXO"`
is_alto_mut(impacto) == impacto # "BAIXO"

\* if info['impacto'] == "ALTO": concursos_data.append(entry)
is_alto(impacto) == impacto = "ALTO"

RECURSIVE concursos_of(_)
\* The entries of one page that are also appended to concursos_data.
concursos_of(entries) ==
  IF entries = <<>> THEN <<>>
  ELSE (IF is_alto(Head(entries).impacto) THEN <<Head(entries)>> ELSE <<>>)
       \o concursos_of(Tail(entries))

\* ---------------------------------------------------------------- inputs

MaxDates == 2

MaxPages == 2

\* download_dir and reports_dir, relative to os.getcwd()
download_dir == <<"d","o","w","n","l","o","a","d","s">>

\* datas of the __main__ block of src/bot1.py
datas ==
  <<
    <<"0","2","/","0","1","/","2","0","2","5">>,
    <<"0","3","/","0","2","/","2","0","2","5">>,
    <<"0","3","/","0","3","/","2","0","2","5">>,
    <<"0","3","/","0","4","/","2","0","2","5">>,
    <<"0","3","/","0","5","/","2","0","2","5">>
  >>

\* The lists process_dates is called with: the first dates of datas.
DateLists == {SubSeq(datas, 1, n) : n \in 0..Min(MaxDates, Len(datas))}

\* A file the browser left in download_dir for fetch_latest_pdf to return.
latest_file == download_dir \o <<"/","d","o","e",".","p","d","f">>

\* The page of the specification's example: a HIGH and a MEDIUM category.
\* 'SECRETARIA DE SAÚDE\nAbertura de concurso público para vagas.'
TextExample ==
  <<"S","E","C","R","E","T","A","R","I","A"," ","D","E"," ","S","A","Ú","D",
    "E","\n","A","b","e","r","t","u","r","a"," ","d","e"," ","c","o","n",
    "c","u","r","s","o"," ","p","ú","b","l","i","c","o"," ","p","a","r","a",
    " ","v","a","g","a","s",".">>

\* Two terms of one MEDIUM category, one of them twice.
\* 'ATOS DO DIA\nCurso de MESTRADO e Doutorado; mestrado.'
TextMestrado ==
  <<"A","T","O","S"," ","D","O"," ","D","I","A","\n","C","u","r","s","o",
    " ","d","e"," ","M","E","S","T","R","A","D","O"," ","e"," ","D","o","u",
    "t","o","r","a","d","o",";"," ","m","e","s","t","r","a","d","o",".">>

\* A page with a heading, terms of a HIGH and of two MEDIUM categories, two
\* terms of one category, and one term at two places.
\* 'SECRETARIA DE SAÚDE\nAbertura de concurso público e Processo Seletivo para Mestrado; concurso público.'
TextEdital ==
  <<"S","E","C","R","E","T","A","R","I","A"," ","D","E"," ","S","A","Ú","D",
    "E","\n","A","b","e","r","t","u","r","a"," ","d","e"," ","c","o","n",
    "c","u","r","s","o"," ","p","ú","b","l","i","c","o"," ","e"," ","P","r",
    "o","c","e","s","s","o"," ","S","e","l","e","t","i","v","o"," ","p","a",
    "r","a"," ","M","e","s","t","r","a","d","o",";"," ","c","o","n","c","u",
    "r","s","o"," ","p","ú","b","l","i","c","o",".">>

\* What page.extract_text() returns for the pages of the documents scanned.
DocTexts == {None, <<>>, TextEdital}

\* ---------------------------------------------------------------- page inputs

MaxLines == 6

PadSlack == 2

\* The lines a heading is looked for among: an empty one, two upper-case
\* ones longer than 5 characters, a mixed-case one.
LineKinds ==
  {<<>>,
   <<"D","E","C","R","E","T","O","S">>,
   <<"P","O","R","T","A","R","I","A","S">>,
   <<"E","d","i","t","a","i","s">>}

RECURSIVE LineLists(_)
\* The sequences of exactly n lines.
LineLists(n) ==
  IF n = 0 THEN {<<>>}
  ELSE {Append(ls, l) : ls \in LineLists(n - 1), l \in LineKinds}

\* Pages of 1..MaxLines lines: "\n".join(lines).
HeadingTexts ==
  {join(<<"\n">>, ls) : ls \in UNION {LineLists(n) : n \in 1..MaxLines}}

\* n times the character c
Rep(c, n) == [k \in 1..n |-> c]

\* "mestrado" as the catalog writes it, and as a page may.
TermCases ==
  {<<"m","e","s","t","r","a","d","o">>,
   <<"M","E","S","T","R","A","D","O">>}

\* Lengths of the text between a space and the term, and between the end of
\* the term and a space, around the 100 and the 200 characters of the window.
BeforeLens == {0} \cup ((CtxBefore - PadSlack)..(CtxBefore + PadSlack))

AfterLens ==
  {0} \cup {n - Len(termos_EDUCACAO_PESQUISA[3]) :
              n \in (CtxAfter - PadSlack)..(CtxAfter + PadSlack)}

\* Pages with one term: a word, a space, b characters, the term and c
\* more characters up to the next space, a last word; `dotted` leading U+0130, and
\* `again` a second occurrence of the term at the end.
WindowTexts ==
  {Rep("U+0130", dotted) \o Rep("x", a) \o <<" ">> \o Rep("y", b) \o term
     \o Rep("z", c) \o <<" ">> \o Rep("w", PadSlack)
     \o (IF again THEN <<" ">> \o term ELSE <<>>) :
     dotted \in 0..1, a \in {0, PadSlack}, b \in BeforeLens, term \in TermCases,
     c \in AfterLens, again \in BOOLEAN}

\* 'Cita SEU NOME aqui.'
TextNome ==
  <<"C","i","t","a"," ","S","E","U"," ","N","O","M","E"," ","a","q","u","i",".">>

\* 'EDITAL\nCONCURSO PÚBLICO aberto; Processo Seletivo.'
TextConcurso ==
  <<"E","D","I","T","A","L","\n","C","O","N","C","U","R","S","O"," ","P","Ú","B","L","I","C","O"," ","a","b","e","r","t","o",";"," ","P","r","o","c","e","s","s","o"," ","S","e","l","e","t","i","v","o",".">>

\* 'Pag. 3\nATOS 1\nlei nº 5 e DECRETO Nº 7'
TextAtos ==
  <<"P","a","g","."," ","3","\n","A","T","O","S"," ","1","\n","l","e","i"," ","n","º"," ","5"," ","e"," ","D","E","C","R","E","T","O"," ","N","º"," ","7">>

\* 'ATOS:\nLEIS E DECRETOS\nlei nº 1'
TextShort ==
  <<"A","T","O","S",":","\n","L","E","I","S"," ","E"," ","D","E","C","R","E","T","O","S","\n","l","e","i"," ","n","º"," ","1">>

\* '2025-01\n\nresolução'
TextDigits ==
  <<"2","0","2","5","-","0","1","\n","\n","r","e","s","o","l","u","ç","ã","o">>

\* Pages with a run of U+0130 before the one term, as long as the reach of
\* the window before the match and one longer: lower() makes that run twice
\* as long.
DottedTexts ==
  {Rep("U+0130", n) \o <<" ">> \o termos_EDUCACAO_PESQUISA[3] :
     n \in CtxBefore..(CtxBefore + 1)}

\* Whitespace at both ends, a run of newlines and a run of spaces, and a
\* term that a line break cuts in two.
\* '\n Edital\nde  abertura \n\n em  curso\t\n'
TextSpaced ==
  <<"\n"," ","E","d","i","t","a","l","\n","d","e"," "," ","a","b","e","r",
    "t","u","r","a"," ","\n","\n"," ","e","m"," "," ","c","u","r","s","o",
    "\t","\n">>

\* The pages whose terms are looked at: those with terms of the catalog in
\* them, and None and the empty page.
TermTexts ==
  DocTexts \cup DottedTexts
  \cup {TextExample, TextMestrado, TextNome, TextConcurso, TextAtos,
        TextShort, TextDigits, TextSpaced}
  \cup WindowTexts

\* What page.extract_text() returns for the single pages classified.
PageTexts == TermTexts \cup HeadingTexts

\* ---------------------------------------------------------------- state

VARIABLES
  prog,             \* the script that runs: "bot" (src/bot.py) or "bot1"
  pc,               \* "idle", "fetch", "analyze", "done", or where an
                    \* exception left the process: "fetch_raised",
                    \* "analyze_raised"
  lista_datas,      \* process_dates: its argument
  d,                \* process_dates: 1-based position of `data` in the list
  pdf_path,         \* the path acquisition returned, or None
  n_pages,          \* analyze_pdf: len(pdf.pages) of the open document
  i,                \* analyze_pdf: 0-based index of the next page
  text,             \* analyze_pdf: page.extract_text() of the last page read
  page_texts,       \* history: extract_text() of each page read of this document
  topico_estimado,  \* analyze_pdf: heading of the last page classified
  extracted_data,   \* analyze_pdf: entries of the document scanned
  concursos_data,   \* analyze_pdf: its high-impact entries
  all_findings,     \* process_dates: entries accumulated over the dates
  all_concursos,    \* process_dates: high-impact entries accumulated
  now,              \* the wall clock, in seconds
  reports,          \* reports_dir: file name -> content
  write_count,      \* history: file name -> number of times it was written
  attempts,         \* history: one record per date process_dates attempted
  handed,           \* history: the calls of generate_reports of this run
  runs              \* history: number of processes started

vars ==
  <<prog, pc, lista_datas, d, pdf_path, n_pages, i, text, page_texts,
    topico_estimado, extracted_data, concursos_data, all_findings,
    all_concursos, now, reports, write_count, attempts, handed, runs>>

\* The state a fresh process has before DOEProcessor() runs anything.
Fresh ==
  /\ lista_datas = <<>>
  /\ d = 1
  /\ pdf_path = None
  /\ n_pages = 0
  /\ i = 0
  /\ text = None
  /\ page_texts = <<>>
  /\ topico_estimado = None
  /\ extracted_data = <<>>
  /\ concursos_data = <<>>
  /\ all_findings = <<>>
  /\ all_concursos = <<>>
  /\ attempts = <<>>
  /\ handed = <<>>

Init ==
  /\ prog = "bot"
  /\ pc = "idle"
  /\ now = 0
  /\ reports = <<>>
  /\ write_count = <<>>
  /\ runs = 0
  /\ Fresh

\* ---------------------------------------------------------------- reports

\* f"{stem}{timestamp}{ext}" in reports_dir
report_name(stem, t, ext) == [stem |-> stem, timestamp |-> timestamp_of(t), ext |-> ext]

\* df.groupby(['topico_detectado', 'categoria'])['pagina'].count()
summary_of(data) ==
  LET groups == {<<data[k].topico_detectado, data[k].categoria>> : k \in 1..Len(data)}
  IN  [g \in groups |->
         Cardinality({k \in 1..Len(data) :
                        <<data[k].topico_detectado, data[k].categoria>> = g})]

\* The files one call of generate_reports writes: name :> content.
files_bot(data, concursos, t) ==
  (report_name("relatorio_geral_", t, ".json") :> data)
  @@ (IF concursos # <<>>
      THEN report_name("ALERTA_CONCURSOS_", t, ".csv") :>
             [sep |-> ";", rows |-> concursos]
      ELSE <<>>)
  @@ (IF data # <<>>
      THEN report_name("resumo_topicos_", t, ".txt") :> summary_of(data)
      ELSE <<>>)

files_bot1(data, concursos, t) ==
  IF data # <<>>
  THEN report_name("relatorio_multiplo_", t, ".json") :> data
  ELSE <<>>

generate_reports(p, data, concursos, t) ==
  IF p = "bot" THEN files_bot(data, concursos, t)
  ELSE files_bot1(data, concursos, t)

\* open(path, 'w') of every file of `files`: a file of that name is replaced.
WriteFiles(files) ==
  /\ reports' = files @@ reports
  /\ write_count' =
       [n \in DOMAIN files \cup DOMAIN write_count |->
          (IF n \in DOMAIN write_count THEN write_count[n] ELSE 0)
          + (IF n \in DOMAIN files THEN 1 ELSE 0)]

\* One call generate_reports(data, concursos) at clock reading `now`.
CallGenerateReports(data, concursos) ==
  LET files == generate_reports(prog, data, concursos, now)
  IN  /\ WriteFiles(files)
      /\ handed' = Append(handed, [data |-> data, concursos |-> concursos,
                                   written |-> DOMAIN files])

\* ---------------------------------------------------------------- actions

\* job() of src/bot.py: DOEProcessor().run_pipeline() in a fresh process.
StartBot ==
  /\ pc = "idle"
  /\ prog' = "bot"
  /\ pc' = "fetch"
  /\ runs' = runs + 1
  /\ UNCHANGED <<lista_datas, d, pdf_path, n_pages, i, text, page_texts,
                 topico_estimado, extracted_data, concursos_data,
                 all_findings, all_concursos, now, reports, write_count,
                 attempts, handed>>

\* The __main__ block of src/bot1.py: DOEProcessor().process_dates(lista).
StartBot1 ==
  /\ pc = "idle"
  /\ \E lista \in DateLists : lista_datas' = lista
  /\ prog' = "bot1"
  /\ pc' = "fetch"
  /\ d' = 1
  /\ all_findings' = <<>>
  /\ all_concursos' = <<>>
  /\ runs' = runs + 1
  /\ UNCHANGED <<pdf_path, n_pages, i, text, page_texts, topico_estimado,
                 extracted_data, concursos_data, now, reports, write_count,
                 attempts, handed>>

\* with pdfplumber.open(pdf_path) as pdf: the scan starts at the first page.
OpenPdf(path) ==
  /\ pdf_path' = path
  /\ \E n \in 0..MaxPages : n_pages' = n
  /\ i' = 0
  /\ page_texts' = <<>>
  /\ extracted_data' = <<>>
  /\ concursos_data' = <<>>
  /\ pc' = "analyze"

\* What acquisition ends in: a file; no file in download_dir (or, in
\* bot.py, none to fall back on); an exception the except clause catches;
\* an exception raised outside the try (setup_driver(), driver.quit()).
FetchOutcomes == {"file", "no_files", "caught", "uncaught"}

\* run_pipeline: pdf_path = self.fetch_latest_pdf() and the test on it.
FetchLatest ==
  /\ pc = "fetch"
  /\ prog = "bot"
  /\ \E outcome \in FetchOutcomes :
       CASE outcome = "file" ->
              /\ OpenPdf(latest_file)
              /\ UNCHANGED <<attempts, handed>>
         [] outcome = "uncaught" ->
              /\ pc' = "fetch_raised"
              /\ UNCHANGED <<pdf_path, n_pages, i, page_texts,
                             extracted_data, concursos_data, attempts,
                             handed>>
         [] OTHER ->
              /\ pc' = "done"
              /\ pdf_path' = None
              /\ UNCHANGED <<n_pages, i, page_texts, extracted_data,
                             concursos_data, attempts, handed>>
  /\ UNCHANGED <<prog, lista_datas, d, text, topico_estimado, all_findings,
                 all_concursos, now, reports, write_count, runs>>

\* f"DOE_{data_str.replace('/','-')}.pdf" in download_dir
new_name(data_str) ==
  download_dir \o <<"/","D","O","E","_">>
  \o [k \in 1..Len(data_str) |-> IF data_str[k] = "/" THEN "-" ELSE data_str[k]]
  \o <<".","p","d","f">>

\* process_dates: one turn of `for data in lista_datas` up to the test on
\* pdf_path; the else branch ends the turn.
FetchByDate ==
  /\ pc = "fetch"
  /\ prog = "bot1"
  /\ d <= Len(lista_datas)
  /\ \E outcome \in FetchOutcomes :
       CASE outcome = "file" ->
              /\ OpenPdf(new_name(lista_datas[d]))
              /\ UNCHANGED <<d, attempts>>
         [] outcome = "uncaught" ->
              /\ pc' = "fetch_raised"
              /\ attempts' = Append(attempts, [data |-> lista_datas[d],
                                               outcome |-> outcome,
                                               findings |-> <<>>])
              /\ UNCHANGED <<d, pdf_path, n_pages, i, page_texts,
                             extracted_data, concursos_data>>
         [] OTHER ->
              /\ pdf_path' = None
              /\ d' = d + 1
              /\ attempts' = Append(attempts, [data |-> lista_datas[d],
                                               outcome |-> outcome,
                                               findings |-> <<>>])
              /\ UNCHANGED <<pc, n_pages, i, page_texts, extracted_data,
                             concursos_data>>
  /\ UNCHANGED <<prog, lista_datas, text, topico_estimado, all_findings,
                 all_concursos, now, reports, write_count, handed, runs>>

\* analyze_pdf: one turn of `for i, page in enumerate(pdf.pages)`, for a
\* page whose extract_text() is one of Texts.
AnalyzePage(Texts) ==
  /\ pc = "analyze"
  /\ i < n_pages
  /\ \E page_text \in Texts :
       /\ text' = page_text
       /\ page_texts' = Append(page_texts, page_text)
       /\ IF Falsy(page_text)
          THEN UNCHANGED <<pc, topico_estimado, extracted_data, concursos_data>>
          ELSE IF page_text = None
          THEN \* None.split('\n') raises AttributeError
               /\ pc' = "analyze_raised"
               /\ UNCHANGED <<topico_estimado, extracted_data, concursos_data>>
          ELSE LET entries == page_entries(prog, pdf_path, i, page_text, now)
               IN  /\ topico_estimado' = topico_of(page_text)
                   /\ extracted_data' = extracted_data \o entries
                   /\ concursos_data' = concursos_data \o concursos_of(entries)
                   /\ pc' = pc
  /\ i' = i + 1
  /\ UNCHANGED <<prog, lista_datas, d, pdf_path, n_pages, all_findings,
                 all_concursos, now, reports, write_count, attempts, handed,
                 runs>>

AnalyzeDocPage == AnalyzePage(DocTexts)

\* run_pipeline: analyze_pdf returns; reports are generated if all_data.
ReturnToPipeline ==
  /\ pc = "analyze"
  /\ prog = "bot"
  /\ i = n_pages
  /\ IF extracted_data # <<>>
     THEN CallGenerateReports(extracted_data, concursos_data)
     ELSE UNCHANGED <<reports, write_count, handed>>
  /\ pc' = "done"
  /\ UNCHANGED <<prog, lista_datas, d, pdf_path, n_pages, i, text,
                 page_texts, topico_estimado, extracted_data, concursos_data,
                 all_findings, all_concursos, now, attempts, runs>>

\* The new items put in front: `list[:0] = items`.
extend_mut(list, items) == items \o list

\* all_findings.extend(findings)
extend(list, items) == list \o items

\* process_dates: analyze_pdf returns; its lists extend the accumulated ones.
ReturnToDates ==
  /\ pc = "analyze"
  /\ prog = "bot1"
  /\ i = n_pages
  /\ all_findings' = extend(all_findings, extracted_data)
  /\ all_concursos' = extend(all_concursos, concursos_data)
  /\ attempts' = Append(attempts, [data |-> lista_datas[d], outcome |-> "file",
                                   findings |-> extracted_data])
  /\ d' = d + 1
  /\ pc' = "fetch"
  \* the locals of analyze_pdf are gone, and `findings`, `concursos` are not
  \* read again before they are bound anew
  /\ text' = None
  /\ page_texts' = <<>>
  /\ topico_estimado' = None
  /\ extracted_data' = <<>>
  /\ concursos_data' = <<>>
  /\ UNCHANGED <<prog, lista_datas, pdf_path, n_pages, i, now, reports,
                 write_count, handed, runs>>

\* process_dates: the loop is over; reports are generated if all_findings.
FinishDates ==
  /\ pc = "fetch"
  /\ prog = "bot1"
  /\ d > Len(lista_datas)
  /\ IF all_findings # <<>>
     THEN CallGenerateReports(all_findings, all_concursos)
     ELSE UNCHANGED <<reports, write_count, handed>>
  /\ pc' = "done"
  /\ UNCHANGED <<prog, lista_datas, d, pdf_path, n_pages, i, text,
                 page_texts, topico_estimado, extracted_data, concursos_data,
                 all_findings, all_concursos, now, attempts, runs>>

Next ==
  \/ StartBot
  \/ StartBot1
  \/ FetchLatest
  \/ FetchByDate
  \/ AnalyzeDocPage
  \/ ReturnToPipeline
  \/ ReturnToDates
  \/ FinishDates

Spec == Init /\ [][Next]_vars


\* ---------------------------------------------------------------- one page

\* analyze_pdf called on a one-page document of either script.
PageInit ==
  /\ prog \in {"bot", "bot1"}
  /\ pc = "analyze"
  /\ now = 0
  /\ reports = <<>>
  /\ write_count = <<>>
  /\ runs = 1
  /\ lista_datas = (IF prog = "bot" THEN <<>> ELSE SubSeq(datas, 1, 1))
  /\ d = 1
  /\ pdf_path = (IF prog = "bot" THEN latest_file ELSE new_name(datas[1]))
  /\ n_pages = 1
  /\ i = 0
  /\ text = None
  /\ page_texts = <<>>
  /\ topico_estimado = None
  /\ extracted_data = <<>>
  /\ concursos_data = <<>>
  /\ all_findings = <<>>
  /\ all_concursos = <<>>
  /\ attempts = <<>>
  /\ handed = <<>>

AnalyzeSinglePage == AnalyzePage(PageTexts)

PageNext == AnalyzeSinglePage

PageSpec == PageInit /\ [][PageNext]_vars

\* The same call, on the pages whose terms are looked at.
AnalyzeTermPage == AnalyzePage(TermTexts)

TermNext == AnalyzeTermPage

TermSpec == PageInit /\ [][TermNext]_vars

\* ---------------------------------------------------------------- several runs

MaxRuns == 2

MaxNow == 90

TickSeconds == 30

\* The process ends; reports_dir and the clock are all that outlives it.
Exit ==
  /\ pc \in {"done", "fetch_raised", "analyze_raised"}
  /\ runs < MaxRuns
  /\ pc' = "idle"
  /\ lista_datas' = <<>>
  /\ d' = 1
  /\ pdf_path' = None
  /\ n_pages' = 0
  /\ i' = 0
  /\ text' = None
  /\ page_texts' = <<>>
  /\ topico_estimado' = None
  /\ extracted_data' = <<>>
  /\ concursos_data' = <<>>
  /\ all_findings' = <<>>
  /\ all_concursos' = <<>>
  /\ attempts' = <<>>
  /\ handed' = <<>>
  /\ UNCHANGED <<prog, now, reports, write_count, runs>>

\* Time passes between two runs.
Tick ==
  /\ pc = "idle"
  /\ now + TickSeconds <= MaxNow
  /\ now' = now + TickSeconds
  /\ UNCHANGED <<prog, pc, lista_datas, d, pdf_path, n_pages, i, text,
                 page_texts, topico_estimado, extracted_data, concursos_data,
                 all_findings, all_concursos, reports, write_count, attempts,
                 handed, runs>>

\* Runs of either script on documents of at most one page, one after the
\* other in the same working directory.
RunsNext ==
  \/ Next /\ n_pages' <= 1 /\ Len(lista_datas') <= 1
  \/ Exit
  \/ Tick

RunsSpec == Init /\ [][RunsNext]_vars
\* ---------------------------------------------------------------- claims

\* The 1-based position of a category in the catalog of the running script.
CatIndex(name) ==
  CHOOSE c \in 1..Len(keywords(prog)) : keywords(prog)[c].categoria = name

IsHigh(e) == e.impacto = "ALTO"

\* A page text that is empty or None.
NoText(t) == t = None \/ t = <<>>

\* C1: the high-impact list is exactly the sub-sequence of the all-findings
\* list whose impact is ALTO, in the same order, for the lists analyze_pdf
\* builds and for those process_dates accumulates.
C1_HighImpactIsFilter ==
  /\ concursos_data = SelectSeq(extracted_data, IsHigh)
  /\ all_concursos = SelectSeq(all_findings, IsHigh)

\* process_dates ended with two documents scanned, high-impact findings and
\* others accumulated.
C1_Witness ==
  /\ prog = "bot1"
  /\ pc = "done"
  /\ Len(attempts) = 2
  /\ \A k \in 1..2 : \E j \in 1..Len(attempts[k].findings) :
        IsHigh(attempts[k].findings[j])
  /\ Len(all_concursos) >= 2
  /\ Len(all_findings) > Len(all_concursos)

\* The entries of list `data` that page p contributed for category name c.
EntriesOf(data, p, c) ==
  {k \in 1..Len(data) : data[k].pagina = p /\ data[k].categoria = c}

\* C2: for every page of the document scanned, at most one entry per catalog
\* category, hence at most len(catalog) entries for the page.
C2_OneEntryPerCategory ==
  \A p \in 1..n_pages :
    /\ \A c \in 1..Len(keywords(prog)) :
         Cardinality(EntriesOf(extracted_data, p, keywords(prog)[c].categoria)) <= 1
    /\ Cardinality({k \in 1..Len(extracted_data) : extracted_data[k].pagina = p})
         <= Len(keywords(prog))

\* A page was classified whose text has two terms of one category, one of
\* them at two places, and the category has its entry for that page.
C2_Witness ==
  /\ i >= 1
  /\ Len(page_texts) = i
  /\ ~NoText(text)
  /\ \E c \in 1..Len(keywords(prog)) :
       LET termos == keywords(prog)[c].termos
           low    == lower(clean_text(text))
       IN  /\ \E a, b \in 1..Len(termos) :
                a # b /\ Contains(low, termos[a]) /\ Contains(low, termos[b])
           /\ \E a \in 1..Len(termos), x, y \in 0..Len(low) :
                /\ x # y
                /\ Slice(low, x, x + Len(termos[a])) = termos[a]
                /\ Slice(low, y, y + Len(termos[a])) = termos[a]
           /\ EntriesOf(extracted_data, i, keywords(prog)[c].categoria) # {}

Ended == pc \in {"done", "fetch_raised", "analyze_raised"}

\* C3: when process_dates has ended, every date of the list was attempted,
\* in order, and every finding of every date whose acquisition gave a file
\* is in the data handed to generate_reports.
C3_Claim ==
  (prog = "bot1" /\ Ended) =>
    /\ [k \in 1..Len(attempts) |-> attempts[k].data] = lista_datas
    /\ \A k \in 1..Len(attempts) :
         \A j \in 1..Len(attempts[k].findings) :
           /\ handed # <<>>
           /\ \E m \in 1..Len(handed[Len(handed)].data) :
                handed[Len(handed)].data[m] = attempts[k].findings[j]

\* The .csv files a call of generate_reports wrote.
CsvOf(call) == {n \in call.written : n.ext = ".csv"}

\* C4: a call of generate_reports writes the high-impact CSV file if and
\* only if the high-impact sequence it is given is non-empty; the file is
\* semicolon-delimited and has one row per finding.
C4_Claim ==
  \A k \in 1..Len(handed) :
    /\ CsvOf(handed[k]) # {} <=> handed[k].concursos # <<>>
    /\ \A n \in CsvOf(handed[k]) :
         /\ reports[n].sep = ";"
         /\ Len(reports[n].rows) = Len(handed[k].concursos)

\* C5: no report file is written by two calls of generate_reports: a call
\* never overwrites the file of an earlier call.
C5_Claim == \A n \in DOMAIN write_count : write_count[n] <= 1

\* A line the heading may be taken from.
Qualifies(line) == isupper(line) /\ Len(line) > 5

\* The first line of `lines` that qualifies, GERAL if none does.
FirstQualifying(lines) ==
  LET Q == {k \in 1..Len(lines) : Qualifies(lines[k])}
  IN  IF Q = {} THEN GERAL
      ELSE lines[CHOOSE k \in Q : \A h \in Q : k <= h]

\* The first n elements of a sequence (all of them if it has fewer).
FirstN(seq, n) == SubSeq(seq, 1, Min(n, Len(seq)))

NonEmpty(line) == line # <<>>

\* A truthy page has just been classified.
Classified == i >= 1 /\ Len(page_texts) = i /\ ~NoText(text)

\* C6 as stated: the topic is the first qualifying line among the first 5
\* non-empty lines of the raw text, GERAL if none qualifies.
C6_Claim ==
  Classified =>
    topico_estimado =
      FirstQualifying(FirstN(SelectSeq(split_sep(text, "\n"), NonEmpty), 5))

\* C6 as amended: the topic is the first qualifying line among the first 5
\* lines of the raw text, empty lines counted, GERAL if none qualifies; the
\* entries of the page carry it.
C6_TopicFromFirstFiveLines ==
  Classified =>
    LET topic == FirstQualifying(FirstN(split_sep(text, "\n"), 5))
    IN  /\ topico_estimado = topic
        /\ \A k \in 1..Len(extracted_data) :
             extracted_data[k].pagina = i =>
               extracted_data[k].topico_detectado = topic

\* A page with an empty line among its first 5 lines and its only
\* qualifying line just after them: the topic is GERAL.
C6_Witness ==
  /\ Classified
  /\ LET lines == split_sep(text, "\n")
     IN  /\ Len(lines) >= 6
         /\ \E k \in 1..5 : lines[k] = <<>>
         /\ \A k \in 1..5 : ~Qualifies(lines[k])
         /\ Qualifies(lines[6])
  /\ topico_estimado = GERAL

\* The 0-based offset of the first occurrence of `termo` in `low`.
FirstOffset(low, termo) ==
  CHOOSE s \in 0..Len(low) :
    /\ Slice(low, s, s + Len(termo)) = termo
    /\ \A h \in 0..(s - 1) : Slice(low, h, h + Len(termo)) # termo

\* The characters of `clean` at the 0-based positions lo..hi-1.
Window(clean, lo, hi) ==
  IF hi <= lo THEN <<>> ELSE [k \in 1..(hi - lo) |-> clean[lo + k]]

\* The window of the entry e of the page just classified.
WindowOf(e) ==
  LET clean == clean_text(text)
      s     == FirstOffset(lower(clean), e.termo_encontrado)
  IN  Window(clean, Max(0, s - 100), Min(Len(clean), s + 200))

\* w without its leading and trailing whitespace.
Trimmed(w) ==
  LET solid == {k \in 1..Len(w) : w[k] \notin Whitespace}
  IN  IF solid = {} THEN <<>>
      ELSE SubSeq(w, CHOOSE k \in solid : \A h \in solid : k <= h,
                     CHOOSE k \in solid : \A h \in solid : k >= h)

C8_Claim ==
  Classified =>
    \A c \in 1..Len(keywords(prog)) :
      \A a \in 1..Len(keywords(prog)[c].termos) :
        Contains(lower(clean_text(text)), lower(keywords(prog)[c].termos[a]))
          => EntriesOf(extracted_data, i, keywords(prog)[c].categoria) # {}

\* C9: a page whose text is empty or None contributes no entry and raises
\* no error, and the scan goes on with the next page; a document none of
\* whose pages has text yields two empty lists.
C9_EmptyPagesAreSkipped ==
  /\ \A p \in 1..Len(page_texts) :
       NoText(page_texts[p]) =>
         \A k \in 1..Len(extracted_data) : extracted_data[k].pagina # p
  /\ (Len(page_texts) = i /\ i >= 1 /\ NoText(text)) => pc # "analyze_raised"
  /\ (Len(page_texts) = i /\ i >= 1 /\ NoText(text) /\ i < n_pages
        /\ pc # "idle")
       => pc = "analyze"
  /\ (\A p \in 1..Len(page_texts) : NoText(page_texts[p]))
       => extracted_data = <<>> /\ concursos_data = <<>>

\* A document whose first page has no text, None or empty, and whose second
\* page has entries: the scan went on past the first page.
C9_Witness ==
  /\ Len(page_texts) = 2
  /\ NoText(page_texts[1])
  /\ ~NoText(page_texts[2])
  /\ extracted_data # <<>>
  /\ \A k \in 1..Len(extracted_data) : extracted_data[k].pagina = 2

\* The 1-based position in lista_datas of the date whose file e comes from.
DateIndex(e) ==
  CHOOSE k \in 1..Len(lista_datas) :
    basename(new_name(lista_datas[k])) = e.arquivo

\* e comes before f: an earlier page, or the same page and a category
\* earlier in the catalog.
PageBefore(e, f) ==
  \/ e.pagina < f.pagina
  \/ e.pagina = f.pagina /\ CatIndex(e.categoria) < CatIndex(f.categoria)

\* C10: the entries of a document are in page order and, within a page, in
\* catalog order; in process_dates the entries of an earlier date of the
\* list come before those of a later date.
C10_FindingsOrder ==
  /\ \A a, b \in 1..Len(extracted_data) :
       PageBefore(extracted_data[a], extracted_data[b]) => a < b
  /\ prog = "bot1" =>
       \A a, b \in 1..Len(all_findings) :
         LET e == all_findings[a]
             f == all_findings[b]
         IN  (\/ DateIndex(e) < DateIndex(f)
              \/ DateIndex(e) = DateIndex(f) /\ PageBefore(e, f)) => a < b

\* process_dates accumulated the entries of two dates, with a document
\* that has entries on two pages and two entries on one page.
C10_Witness ==
  /\ prog = "bot1"
  /\ pc = "done"
  /\ \E a, b \in 1..Len(all_findings) :
       DateIndex(all_findings[a]) < DateIndex(all_findings[b])
  /\ \E a, b \in 1..Len(all_findings) :
       /\ DateIndex(all_findings[a]) = DateIndex(all_findings[b])
       /\ all_findings[a].pagina < all_findings[b].pagina
  /\ \E a, b \in 1..Len(all_findings) :
       /\ a # b
       /\ DateIndex(all_findings[a]) = DateIndex(all_findings[b])
       /\ all_findings[a].pagina = all_findings[b].pagina

\* r has no whitespace at either end and no two whitespace characters in a
\* row.
Tidy(r) ==
  /\ r # <<>> => r[1] \notin Whitespace /\ r[Len(r)] \notin Whitespace
  /\ \A k \in 1..(Len(r) - 1) :
       ~(r[k] \in Whitespace /\ r[k + 1] \in Whitespace)

\* C11: clean_text is idempotent; its result has no leading or trailing
\* whitespace and no run of two or more whitespace characters, and it is
\* the empty string for None and for the empty text.  Stated of the text of
\* the page last read, which analyze_pdf hands to clean_text.
C11_CleanTextIdempotent ==
  LET r == clean_text(text)
  IN  /\ clean_text(r) = r
      /\ Tidy(r)
      /\ NoText(text) => r = <<>>

\* A page was classified whose text starts and ends with whitespace and has
\* a run of newlines inside: clean_text changed it.
C11_Witness ==
  /\ Classified
  /\ text[1] \in Whitespace
  /\ text[Len(text)] \in Whitespace
  /\ \E k \in 2..(Len(text) - 2) :
       /\ text[k] = "\n" /\ text[k + 1] = "\n"
       /\ \E h \in 1..(k - 1) : text[h] \notin Whitespace
       /\ \E h \in (k + 2)..Len(text) : text[h] \notin Whitespace
  /\ clean_text(text) # text
  /\ clean_text(text) # <<>>

\* The lower-cased normalized text of the page just classified.
LowText == lower(clean_text(text))

\* The 1-based positions, in the term list of catalog category c, of the
\* terms that are substrings of `low`.
TermsIn(c, low) ==
  {a \in 1..Len(keywords(prog)[c].termos) :
     Contains(low, keywords(prog)[c].termos[a])}

\* C12: the term of an entry is the earliest term of its category's list
\* that is a substring of the lower-cased normalized page text, the page has
\* no other entry for that category, and the impact of the entry is the one
\* the catalog gives the category.
C12_FirstListedTermWins ==
  Classified =>
    LET low == LowText
    IN  \A k \in 1..Len(extracted_data) :
          LET e     == extracted_data[k]
              c     == CatIndex(e.categoria)
              found == TermsIn(c, low)
          IN  e.pagina = i =>
                /\ found # {}
                /\ \E a \in found :
                     /\ \A b \in found : a <= b
                     /\ e.termo_encontrado = keywords(prog)[c].termos[a]
                /\ EntriesOf(extracted_data, i, e.categoria) = {k}
                /\ e.impacto = keywords(prog)[c].impacto

\* An entry whose category has a term later in the list that occurs earlier
\* in the text than the term reported.
C12_Witness ==
  /\ Classified
  /\ \E k \in 1..Len(extracted_data) :
       LET e == extracted_data[k]
           c == CatIndex(e.categoria)
       IN  /\ e.pagina = i
           /\ \E b \in TermsIn(c, LowText) :
                /\ keywords(prog)[c].termos[b] # e.termo_encontrado
                /\ FirstOffset(LowText, keywords(prog)[c].termos[b])
                     < FirstOffset(LowText, e.termo_encontrado)

\* The catalog categories with a term that is a substring of `low`.
CatsIn(low) == {c \in 1..Len(keywords(prog)) : TermsIn(c, low) # {}}

\* The entries of list `data` that page p contributed.
PageEntries(data, p) == {k \in 1..Len(data) : data[k].pagina = p}

\* C13: a page with text has an entry for a category if and only if a term
\* of that category is a substring of its lower-cased normalized text,
\* whatever other categories matched; a page with terms of k categories has
\* exactly k entries.
C13_CategoriesDoNotCompete ==
  Classified =>
    LET cats == CatsIn(LowText)
    IN  /\ \A c \in 1..Len(keywords(prog)) :
             EntriesOf(extracted_data, i, keywords(prog)[c].categoria) # {}
               <=> c \in cats
        /\ Cardinality(PageEntries(extracted_data, i)) = Cardinality(cats)

\* A page with terms of three categories, one of them only in its heading
\* line, and none of another category: three entries.
C13_Witness ==
  /\ Classified
  /\ Cardinality(CatsIn(LowText)) = 3
  /\ Cardinality(CatsIn(LowText)) < Len(keywords(prog))
  /\ Cardinality(PageEntries(extracted_data, i)) = 3
  /\ topico_estimado # GERAL
  /\ \E k \in PageEntries(extracted_data, i) :
       LET termo == extracted_data[k].termo_encontrado
       IN  /\ Contains(lower(topico_estimado), termo)
           /\ ~Contains(Slice(LowText, Len(topico_estimado), Len(LowText)),
                        termo)

\* The snippet of entry e without its "..." suffix.
SnippetBody(e) == SubSeq(e.resumo_snippet, 1, Len(e.resumo_snippet) - 3)

\* C14: the lower-cased snippet of every entry, without the "..." suffix,
\* contains the term the entry reports.
C14_Claim ==
  Classified =>
    \A k \in 1..Len(extracted_data) :
      extracted_data[k].pagina = i =>
        Contains(lower(SnippetBody(extracted_data[k])),
                 extracted_data[k].termo_encontrado)
====
